---- MODULE Spec2Model ----
(***************************************************************************)
(* A model of the audit session module of coreutils_core (os/audit.rs):    *)
(* the layout types, the safe retrieval function audit_info, the Display   *)
(* implementations and the derived equality and hashing; and of tee's      *)
(* copy_buffer (tee/src/main.rs).                                          *)
(***************************************************************************)
EXTENDS Integers, Sequences, FiniteSets, TLC

VARIABLES
    pc,         \* position of the calling thread in audit_info
    auditinfo,  \* the MaybeUninit<AuditInfo> buffer, as its six 32-bit words
    status,     \* the c_int returned by the last getaudit call
    errno,      \* the thread's last-error slot
    ret,        \* what audit_info returned to its caller
    ncalls,     \* raw calls made by the current invocation
    lastCall,   \* the last raw call made: its name and the buffer handed to it
    kWrote,     \* the leading words the kernel wrote in the last call
    kErrno,     \* the last-error value as the last getaudit call left it
    info,       \* Display for AuditInfo: the value formatted
    out,        \* Display for AuditInfo: the text written
    ainfo,      \* Display for AuditInfoAddr: the value formatted
    aout,       \* Display for AuditInfoAddr: the text written
    lhs,        \* PartialEq and Hash: the left value
    rhs,        \* PartialEq and Hash: the right value
    eqRes,      \* PartialEq: the result of lhs == rhs
    hashL,      \* Hash: the hash of lhs
    hashR,      \* Hash: the hash of rhs
    tpc,        \* copy_buffer: position
    reader,     \* copy_buffer: the bytes the reader still holds
    buffer,     \* copy_buffer: the local Vec
    writer,     \* copy_buffer: the bytes the writer has received
    tret,       \* copy_buffer: the result returned
    input0,     \* copy_buffer: the reader's bytes at the call
    writer0,    \* copy_buffer: the writer's bytes at the call
    ioErr       \* copy_buffer: which of the two I/O calls failed

retrVars == <<pc, auditinfo, status, errno, ret, ncalls, lastCall, kWrote, kErrno>>
fmtVars == <<info, out>>
extVars == <<ainfo, aout>>
eqVars == <<lhs, rhs, eqRes, hashL, hashR>>
teeVars == <<tpc, reader, buffer, writer, tret, input0, writer0, ioErr>>
vars == <<retrVars, fmtVars, extVars, eqVars, teeVars>>

(***************************************************************************)
(* Bounds of the model.                                                    *)
(***************************************************************************)
MaxWord == 1
MaxErrno == 2

(***************************************************************************)
(* Layout types.  Every field of AuditInfo is a 4-byte word; with repr(C)  *)
(* the struct is its six fields in declaration order, without padding.     *)
(***************************************************************************)
WordBytes == 4

AuditMask(s, f) == [am_success |-> s, am_failure |-> f]

AuditTerminalId(p, m) == [port |-> p, machine |-> m]

AuditInfo(auid, mask, termid, asid) ==
    [ai_auid |-> auid, ai_mask |-> mask, ai_termid |-> termid, ai_asid |-> asid]

\* The words of an AuditInfo in memory order.
AuditInfoWords(a) ==
    << a.ai_auid, a.ai_mask.am_success, a.ai_mask.am_failure,
       a.ai_termid.port, a.ai_termid.machine, a.ai_asid >>

AuditInfoNumWords == 6

SizeOfAuditInfo == AuditInfoNumWords * WordBytes

\* MaybeUninit::zeroed(): every byte of the buffer is zero.
MaybeUninitUninit == [1..AuditInfoNumWords -> 0..MaxWord]
MaybeUninitZeroed == {[i \in 1..AuditInfoNumWords |-> 0]}

\* assume_init(): the buffer's words read as an AuditInfo.
AssumeInit(w) ==
    AuditInfo(w[1], AuditMask(w[2], w[3]), AuditTerminalId(w[4], w[5]), w[6])

(***************************************************************************)
(* Raw call bindings.                                                      *)
(***************************************************************************)
ExternFns == {"getaudit", "getaudit_addr"}

\* The safe functions the module exports.
SafeFns == {"audit_info"}

\* The raw call each exported safe function makes.
Wraps == [f \in SafeFns |-> "getaudit"]

\* The c_int values a raw call is modelled to return.
StatusValues == {-2, -1, 0, 1}

ErrnoValues == 1..MaxErrno

\* The buffer after the kernel wrote the words k over its leading words.
KernelWrite(buf, k) ==
    [i \in 1..AuditInfoNumWords |-> IF i <= Len(k) THEN k[i] ELSE buf[i]]

\* What the kernel may write in one call: any number of leading words.
KernelWrites == UNION {[1..n -> 0..MaxWord] : n \in 0..AuditInfoNumWords}

NoRet == [tag |-> "None"]
Ok(v) == [tag |-> "Ok", value |-> v]
Err(e) == [tag |-> "Err", code |-> e]

\* The test of the raw call's status.
IsFailureNonZero(s) == s /= 0
IsFailure(s) == s = -1

\* io::Error::last_os_error(): the thread's last-error slot, read now.
LastOsError == errno

RetrInit ==
    /\ pc = "idle"
    /\ auditinfo = <<>>
    /\ status = "none"
    /\ errno = 0
    /\ ret = NoRet
    /\ ncalls = 0
    /\ lastCall = [fn |-> "none"]
    /\ kWrote = <<>>
    /\ kErrno = 0

\* audit_info is entered: the zero-filled buffer is allocated.
AuditInfoAlloc ==
    /\ pc \in {"idle", "done"}
    /\ auditinfo' \in MaybeUninitZeroed
    /\ pc' = "call"
    /\ ret' = NoRet
    /\ ncalls' = 0
    /\ status' = "none"
    /\ lastCall' = [fn |-> "none"]
    /\ kWrote' = <<>>
    /\ kErrno' = errno
    /\ UNCHANGED <<errno, fmtVars, extVars, eqVars, teeVars>>

\* The raw call: the kernel writes some leading words of the session into the
\* buffer, returns a status and, on failure, sets the last-error slot.
GetauditCallAddr ==
    /\ pc = "call"
    /\ \E s \in StatusValues, k \in KernelWrites, e \in ErrnoValues :
          /\ status' = s
          /\ kWrote' = k
          /\ auditinfo' = KernelWrite(auditinfo, k)
          /\ (s /= -1 => e = 1)
          /\ errno' = IF s = -1 THEN e ELSE errno
          /\ kErrno' = IF s = -1 THEN e ELSE errno
    /\ lastCall' = [fn |-> "getaudit_addr", buf |-> auditinfo,
                    length |-> Len(auditinfo) * WordBytes]
    /\ ncalls' = ncalls + 1
    /\ pc' = "check"
    /\ UNCHANGED <<ret, fmtVars, extVars, eqVars, teeVars>>
GetauditCall ==
    /\ pc = "call"
    /\ \E s \in StatusValues, k \in KernelWrites, e \in ErrnoValues :
          /\ status' = s
          /\ kWrote' = k
          /\ auditinfo' = KernelWrite(auditinfo, k)
          /\ (s /= -1 => e = 1)
          /\ errno' = IF s = -1 THEN e ELSE errno
          /\ kErrno' = IF s = -1 THEN e ELSE errno
    /\ lastCall' = [fn |-> Wraps["audit_info"], buf |-> auditinfo]
    /\ ncalls' = ncalls + 1
    /\ pc' = "check"
    /\ UNCHANGED <<ret, fmtVars, extVars, eqVars, teeVars>>

\* The status check and the return.
AuditInfoReturnUnchecked ==
    /\ pc = "check"
    /\ ret' = Ok(AssumeInit(auditinfo))
    /\ pc' = "done"
    /\ UNCHANGED <<auditinfo, status, errno, ncalls, lastCall, kWrote, kErrno, fmtVars, extVars, eqVars, teeVars>>
AuditInfoReturnDeferred ==
    /\ pc = "check"
    /\ \E e \in 0..MaxErrno :
          /\ errno' = e
          /\ ret' = IF IsFailure(status) THEN Err(e) ELSE Ok(AssumeInit(auditinfo))
    /\ pc' = "done"
    /\ UNCHANGED <<auditinfo, status, ncalls, lastCall, kWrote, kErrno, fmtVars, extVars, eqVars, teeVars>>
AuditInfoReturnRetry ==
    /\ pc = "check"
    /\ IF IsFailure(status) /\ ncalls < 2
       THEN pc' = "call" /\ UNCHANGED ret
       ELSE /\ ret' = IF IsFailure(status) THEN Err(LastOsError)
                      ELSE Ok(AssumeInit(auditinfo))
            /\ pc' = "done"
    /\ UNCHANGED <<auditinfo, status, errno, ncalls, lastCall, kWrote, kErrno, fmtVars, extVars, eqVars, teeVars>>
AuditInfoReturn ==
    /\ pc = "check"
    /\ ret' = IF IsFailure(status) THEN Err(LastOsError) ELSE Ok(AssumeInit(auditinfo))
    /\ pc' = "done"
    /\ UNCHANGED <<auditinfo, status, errno, ncalls, lastCall, kWrote, kErrno, fmtVars, extVars, eqVars, teeVars>>

\* Any other operation of the calling thread, outside audit_info, that sets the
\* last-error slot.
OtherSyscall ==
    /\ pc \in {"idle", "done"}
    /\ \E e \in 0..MaxErrno : e /= errno /\ errno' = e
    /\ UNCHANGED <<pc, auditinfo, status, ret, ncalls, lastCall, kWrote, kErrno, fmtVars, extVars, eqVars, teeVars>>


(***************************************************************************)
(* The parts of the state a specification does not exercise stay as they   *)
(* are here.                                                               *)
(***************************************************************************)
FmtIdle == info = <<>> /\ out = "none"
ExtIdle == ainfo = <<>> /\ aout = "none"
EqIdle == lhs = <<>> /\ rhs = <<>> /\ eqRes = "none" /\ hashL = 0 /\ hashR = 0
TeeIdle ==
    /\ tpc = "idle"
    /\ reader = <<>>
    /\ buffer = <<>>
    /\ writer = <<>>
    /\ tret = "none"
    /\ input0 = <<>>
    /\ writer0 = <<>>
    /\ ioErr = "none"

Init == RetrInit /\ FmtIdle /\ ExtIdle /\ EqIdle /\ TeeIdle

Next ==
    \/ AuditInfoAlloc
    \/ GetauditCall
    \/ AuditInfoReturn
    \/ OtherSyscall

\* The calling thread and the kernel around audit_info.
Spec == Init /\ [][Next]_vars

ZeroWords == [i \in 1..AuditInfoNumWords |-> 0]

\* Word i of the buffer as the last raw call left a zero-filled buffer.
Written(i) == IF i <= Len(kWrote) THEN kWrote[i] ELSE 0

\* C1: whenever getaudit returned -1, audit_info returns an OS error and no
\* session-info value: the result holds the error code and nothing of the buffer.
C1_FailureYieldsError ==
    (pc = "done" /\ status = -1) =>
        /\ ret.tag = "Err"
        /\ DOMAIN ret = {"tag", "code"}
        /\ ret.code \in ErrnoValues

C1_Witness ==
    /\ pc = "done"
    /\ status = -1
    /\ Len(kWrote) \in 1..(AuditInfoNumWords - 1)
    /\ \E i \in 1..Len(kWrote) : kWrote[i] /= 0
    /\ ret.tag = "Err"

\* C2: whenever getaudit signals success, audit_info returns Ok with a value whose
\* every field is what the call wrote into the buffer; the buffer handed to the
\* call was zero-filled and has exactly the size of the basic layout.
C2_SuccessYieldsWritten ==
    (pc = "done" /\ status = 0) =>
        /\ ret.tag = "Ok"
        /\ ret.value.ai_auid = Written(1)
        /\ ret.value.ai_mask.am_success = Written(2)
        /\ ret.value.ai_mask.am_failure = Written(3)
        /\ ret.value.ai_termid.port = Written(4)
        /\ ret.value.ai_termid.machine = Written(5)
        /\ ret.value.ai_asid = Written(6)
        /\ lastCall.fn = "getaudit"
        /\ \A i \in DOMAIN lastCall.buf : lastCall.buf[i] = 0
        /\ Len(lastCall.buf) * WordBytes = SizeOfAuditInfo

C2_Witness ==
    /\ pc = "done"
    /\ status = 0
    /\ Len(kWrote) = AuditInfoNumWords
    /\ \A i \in 1..AuditInfoNumWords : kWrote[i] = MaxWord
    /\ ret.tag = "Ok"
    /\ ret.value.ai_asid = MaxWord

\* C3: on a failing retrieval the last-error slot is read right after the raw
\* call returns: between the return and the read the slot holds what the call
\* set, and the error returned carries that value, whatever later operations
\* write to the slot.
C3_ErrorReadImmediately ==
    /\ (pc = "check" => errno = kErrno)
    /\ (ret.tag = "Err" => ret.code = kErrno)

C3_Witness ==
    /\ pc = "done"
    /\ ret.tag = "Err"
    /\ errno /= ret.code
    /\ ret.code = kErrno

\* C4: every invocation of audit_info makes exactly one raw call, whether it
\* succeeds or fails; a failure is returned as it is, with no retry.
C4_SingleCall ==
    /\ (pc = "call" => ncalls = 0)
    /\ (pc \in {"check", "done"} => ncalls = 1)
    /\ ((pc = "done" /\ status = -1) => ret = Err(kErrno))

C4_Witness ==
    /\ pc = "done"
    /\ status = -1
    /\ ncalls = 1
    /\ ret = Err(kErrno)

\* The byte size of AuditInfoAddr: auid, the mask, the extended terminal id
\* (port, type, four address words), asid and the 64-bit flags.
SizeOfAuditInfoAddr == (1 + 2 + 6 + 1 + 2) * WordBytes

C10_ErrorIffMinusOne ==
    pc = "done" =>
        /\ (ret.tag = "Err") <=> (status = -1)
        /\ (status /= -1 => ret = Ok(AssumeInit(auditinfo)))
        /\ ((status /= -1 /\ kWrote = <<>>) => ret = Ok(AssumeInit(ZeroWords)))

C10_Witness ==
    /\ pc = "done"
    /\ status \in {-2, 1}
    /\ kWrote = <<>>
    /\ ret.tag = "Ok"

(***************************************************************************)
(* Presentation.  The text is one string; writeln! ends a line with "\n",   *)
(* the last field is written with write! and ends the text.                *)
(***************************************************************************)
DecDigits == "0123456789"
LowerHexDigits == "0123456789abcdef"
UpperHexDigits == "0123456789ABCDEF"

RECURSIVE DecNat(_)
DecNat(n) ==
    IF n < 10 THEN SubSeq(DecDigits, n + 1, n + 1)
    ELSE DecNat(n \div 10) \o SubSeq(DecDigits, (n % 10) + 1, (n % 10) + 1)

\* "{}" of an integer: decimal, with a minus sign when negative.
FmtDisplay(n) == IF n < 0 THEN "-" \o DecNat(-n) ELSE DecNat(n)

RECURSIVE HexNat(_)
HexNat(n) ==
    IF n < 16 THEN SubSeq(UpperHexDigits, n + 1, n + 1)
    ELSE HexNat(n \div 16) \o SubSeq(UpperHexDigits, (n % 16) + 1, (n % 16) + 1)

\* "{:#X}" of an unsigned integer: 0x, then the uppercase hex digits.
FmtAltUpperHex(n) == "0x" \o HexNat(n)

\* impl Display for AuditInfo
AuditInfoFmt(a) ==
    "auid=" \o FmtDisplay(a.ai_auid) \o "\n"
    \o "mask.success=" \o FmtAltUpperHex(a.ai_mask.am_success) \o "\n"
    \o "mask.failure=" \o FmtAltUpperHex(a.ai_mask.am_failure) \o "\n"
    \o "asid=" \o FmtDisplay(a.ai_asid) \o "\n"
    \o "termid.port=" \o FmtAltUpperHex(a.ai_termid.port) \o "\n"
    \o "termid.machine=" \o FmtAltUpperHex(a.ai_termid.machine)

\* Values of the unsigned 32-bit fields, and of the signed ai_asid, formatted.
\* The port is the u32 of the freebsd layout; values stay below 2^31.
MaxSmall == 1
UnsignedSamples == (0..MaxSmall) \cup {10, 255, 65280, 2147483647}
SignedSamples == (0..MaxSmall) \cup {-1, -120, 4096}

FmtInit ==
    /\ info \in { AuditInfo(u, AuditMask(s, f), AuditTerminalId(p, m), i) :
                    u \in {0, 1001}, s \in UnsignedSamples, f \in {0, 1, 171},
                    p \in {0, 65280}, m \in {0, 2147483647}, i \in SignedSamples }
    /\ out = "none"

\* to_string() / println!("{}", info)
AuditInfoDisplay ==
    /\ out = "none"
    /\ out' = AuditInfoFmt(info)
    /\ UNCHANGED <<info, retrVars, extVars, eqVars, teeVars>>

FmtNext == AuditInfoDisplay

\* Formatting of basic session-info values.
InitFmt == FmtInit /\ RetrInit /\ ExtIdle /\ EqIdle /\ TeeIdle

SpecFmt == InitFmt /\ [][FmtNext]_vars

\* The lines of a text: its parts between "\n".
NewlinesOf(s) == {i \in 1..Len(s) : SubSeq(s, i, i) = "\n"}
NthNewline(s, k) ==
    CHOOSE p \in NewlinesOf(s) : Cardinality({q \in NewlinesOf(s) : q < p}) = k - 1
Lines(s) ==
    LET n == Cardinality(NewlinesOf(s)) IN
    [k \in 1..(n + 1) |->
        SubSeq(s, IF k = 1 THEN 1 ELSE NthNewline(s, k - 1) + 1,
                  IF k = n + 1 THEN Len(s) ELSE NthNewline(s, k) - 1)]

HasPrefix(s, k) == Len(s) >= Len(k) /\ SubSeq(s, 1, Len(k)) = k
After(s, k) == SubSeq(s, Len(k) + 1, Len(s))

\* The value of a digit in an alphabet, -1 when it is not of the alphabet.
DigitIn(al, c) ==
    IF \E i \in 1..Len(al) : SubSeq(al, i, i) = c
    THEN (CHOOSE i \in 1..Len(al) : SubSeq(al, i, i) = c) - 1
    ELSE -1

\* s is the canonical numeral of n in the alphabet: digits of the alphabet only,
\* no leading zero but for zero itself, and of value n.
RECURSIVE NumeralValue(_, _, _)
NumeralValue(al, s, acc) ==
    IF Len(s) = 0 THEN acc
    ELSE NumeralValue(al, SubSeq(s, 2, Len(s)), acc * Len(al) + DigitIn(al, SubSeq(s, 1, 1)))
IsNumeral(al, s, n) ==
    /\ Len(s) >= 1
    /\ \A i \in 1..Len(s) : DigitIn(al, SubSeq(s, i, i)) >= 0
    /\ (Len(s) > 1 => SubSeq(s, 1, 1) /= "0")
    /\ NumeralValue(al, s, 0) = n

IsDecimalOf(s, n) ==
    IF n < 0 THEN HasPrefix(s, "-") /\ IsNumeral("0123456789", After(s, "-"), -n)
    ELSE IsNumeral("0123456789", s, n)
IsHexOf(s, n) ==
    HasPrefix(s, "0x") /\ IsNumeral("0123456789ABCDEF", After(s, "0x"), n)

ZeroInfo == AuditInfo(0, AuditMask(0, 0), AuditTerminalId(0, 0), 0)

\* C5: formatting a basic session-info value yields exactly six lines, in the
\* order auid (decimal), mask.success, mask.failure (uppercase hex after 0x),
\* asid (decimal), termid.port, termid.machine (uppercase hex after 0x), with no
\* zero padding; the all-zero value and the masks 0xFF00 and 0x1 format as stated.
C5_FormatSixLines ==
    out /= "none" =>
        LET L == Lines(out) IN
        /\ Len(L) = 6
        /\ HasPrefix(L[1], "auid=") /\ IsDecimalOf(After(L[1], "auid="), info.ai_auid)
        /\ HasPrefix(L[2], "mask.success=")
        /\ IsHexOf(After(L[2], "mask.success="), info.ai_mask.am_success)
        /\ HasPrefix(L[3], "mask.failure=")
        /\ IsHexOf(After(L[3], "mask.failure="), info.ai_mask.am_failure)
        /\ HasPrefix(L[4], "asid=") /\ IsDecimalOf(After(L[4], "asid="), info.ai_asid)
        /\ HasPrefix(L[5], "termid.port=")
        /\ IsHexOf(After(L[5], "termid.port="), info.ai_termid.port)
        /\ HasPrefix(L[6], "termid.machine=")
        /\ IsHexOf(After(L[6], "termid.machine="), info.ai_termid.machine)
        /\ (info = ZeroInfo =>
               L = << "auid=0", "mask.success=0x0", "mask.failure=0x0", "asid=0",
                      "termid.port=0x0", "termid.machine=0x0" >>)
        /\ ((info.ai_mask.am_success = 65280 /\ info.ai_mask.am_failure = 1) =>
               L[2] = "mask.success=0xFF00" /\ L[3] = "mask.failure=0x1")

C5_Witness ==
    /\ out /= "none"
    /\ info.ai_mask.am_success = 65280
    /\ info.ai_mask.am_failure = 1
    /\ info.ai_asid < 0
    /\ Len(Lines(out)) = 6

(***************************************************************************)
(* The extended session info and its Display.                              *)
(***************************************************************************)
AuditTerminalIdAddr(p, t, addr) == [at_port |-> p, at_type |-> t, at_addr |-> addr]

AuditInfoAddr(auid, mask, termid, asid, flags) ==
    [ai_auid |-> auid, ai_mask |-> mask, ai_termid |-> termid, ai_asid |-> asid,
     ai_flags |-> flags]

\* impl Display for AuditInfoAddr
AuditInfoAddrFmtWithFlags(a) ==
    "auid=" \o FmtDisplay(a.ai_auid) \o "\n"
    \o "mask.success=" \o FmtAltUpperHex(a.ai_mask.am_success) \o "\n"
    \o "mask.failure=" \o FmtAltUpperHex(a.ai_mask.am_failure) \o "\n"
    \o "asid=" \o FmtDisplay(a.ai_asid) \o "\n"
    \o "termid.at_port=" \o FmtAltUpperHex(a.ai_termid.at_port) \o "\n"
    \o "termid.at_type=" \o FmtDisplay(a.ai_termid.at_type) \o "\n"
    \o "flags=" \o FmtAltUpperHex(a.ai_flags)
AuditInfoAddrFmt(a) ==
    "auid=" \o FmtDisplay(a.ai_auid) \o "\n"
    \o "mask.success=" \o FmtAltUpperHex(a.ai_mask.am_success) \o "\n"
    \o "mask.failure=" \o FmtAltUpperHex(a.ai_mask.am_failure) \o "\n"
    \o "asid=" \o FmtDisplay(a.ai_asid) \o "\n"
    \o "termid.at_port=" \o FmtAltUpperHex(a.ai_termid.at_port) \o "\n"
    \o "termid.at_type=" \o FmtDisplay(a.ai_termid.at_type)

\* at_type and at_addr as the kernel fills them: AU_IPv4 with one word, AU_IPv6
\* with four.
AddrSamples == { <<0, 0, 0, 0>>, <<2130706433, 0, 0, 0>>, <<MaxSmall, 0, 0, MaxSmall>> }
ExtSamples == (0..MaxSmall) \cup {171}

AuditInfoAddrs ==
    { AuditInfoAddr(u, AuditMask(s, f), AuditTerminalIdAddr(p, t, ad), i, fl) :
        u \in {0, 1001}, s \in ExtSamples, f \in {0, 65280}, p \in ExtSamples,
        t \in {4, 16}, ad \in AddrSamples, i \in {-1, MaxSmall}, fl \in {0, MaxSmall} }

ExtInit ==
    /\ ainfo \in AuditInfoAddrs
    /\ aout = "none"

AuditInfoAddrDisplay ==
    /\ aout = "none"
    /\ aout' = AuditInfoAddrFmt(ainfo)
    /\ UNCHANGED <<ainfo, retrVars, fmtVars, eqVars, teeVars>>

ExtNext == AuditInfoAddrDisplay

\* Formatting of extended session-info values.
InitExt == ExtInit /\ RetrInit /\ FmtIdle /\ EqIdle /\ TeeIdle

SpecExt == InitExt /\ [][ExtNext]_vars

\* C7 as stated: formatting an extended value renders its terminal port and its
\* address type only; no other field appears in the output.
C7_OnlyPortAndType ==
    aout /= "none" =>
        /\ Len(Lines(aout)) = 2
        /\ \A v \in AuditInfoAddrs :
              (v.ai_termid.at_port = ainfo.ai_termid.at_port
               /\ v.ai_termid.at_type = ainfo.ai_termid.at_type)
              => AuditInfoAddrFmt(v) = aout

\* C7 amended: formatting an extended value renders the user id, both masks, the
\* session id and, of the terminal id, the port (hex) and the address type
\* (decimal), in six lines; the address words and the flags do not appear.
C7_AllButAddrAndFlags ==
    aout /= "none" =>
        LET L == Lines(aout) IN
        /\ Len(L) = 6
        /\ HasPrefix(L[1], "auid=") /\ IsDecimalOf(After(L[1], "auid="), ainfo.ai_auid)
        /\ HasPrefix(L[2], "mask.success=")
        /\ IsHexOf(After(L[2], "mask.success="), ainfo.ai_mask.am_success)
        /\ HasPrefix(L[3], "mask.failure=")
        /\ IsHexOf(After(L[3], "mask.failure="), ainfo.ai_mask.am_failure)
        /\ HasPrefix(L[4], "asid=") /\ IsDecimalOf(After(L[4], "asid="), ainfo.ai_asid)
        /\ HasPrefix(L[5], "termid.at_port=")
        /\ IsHexOf(After(L[5], "termid.at_port="), ainfo.ai_termid.at_port)
        /\ HasPrefix(L[6], "termid.at_type=")
        /\ IsDecimalOf(After(L[6], "termid.at_type="), ainfo.ai_termid.at_type)
        /\ \A ad \in AddrSamples, fl \in {0, MaxSmall} :
              AuditInfoAddrFmt([ainfo EXCEPT !.ai_termid.at_addr = ad, !.ai_flags = fl])
                  = aout

C7_Witness ==
    /\ aout /= "none"
    /\ ainfo.ai_auid /= 0
    /\ ainfo.ai_flags /= 0
    /\ ainfo.ai_termid.at_addr /= <<0, 0, 0, 0>>
    /\ Len(Lines(aout)) = 6

(***************************************************************************)
(* Derived equality and hashing of AuditInfo.                              *)
(***************************************************************************)
\* #[derive(PartialEq)]: the fields compared in declaration order.
AuditMaskEq(x, y) == x.am_success = y.am_success /\ x.am_failure = y.am_failure

AuditTerminalIdEq(x, y) == x.port = y.port /\ x.machine = y.machine

AuditInfoEqNoAsid(x, y) ==
    /\ x.ai_auid = y.ai_auid
    /\ AuditMaskEq(x.ai_mask, y.ai_mask)
    /\ AuditTerminalIdEq(x.ai_termid, y.ai_termid)
AuditInfoEq(x, y) ==
    /\ x.ai_auid = y.ai_auid
    /\ AuditMaskEq(x.ai_mask, y.ai_mask)
    /\ AuditTerminalIdEq(x.ai_termid, y.ai_termid)
    /\ x.ai_asid = y.ai_asid

\* #[derive(Hash)]: every field written to the hasher in declaration order.  The
\* hasher is the caller's; a multiplicative one of 16 bits stands for it.
HasherBits == 16
HasherWrite(h, w) == (h * 31 + w + 1) % (2 ^ HasherBits)

AuditInfoHash(x) ==
    LET h1 == HasherWrite(0, x.ai_auid)
        h2 == HasherWrite(HasherWrite(h1, x.ai_mask.am_success), x.ai_mask.am_failure)
        h3 == HasherWrite(HasherWrite(h2, x.ai_termid.port), x.ai_termid.machine)
    IN  HasherWrite(h3, x.ai_asid)

MaxEqWord == 1
AuditInfos ==
    { AuditInfo(u, AuditMask(s, f), AuditTerminalId(p, m), i) :
        u \in 0..MaxEqWord, s \in 0..MaxEqWord, f \in 0..MaxEqWord,
        p \in 0..MaxEqWord, m \in 0..MaxEqWord, i \in 0..MaxEqWord }

EqInit ==
    /\ lhs \in AuditInfos
    /\ rhs \in AuditInfos
    /\ eqRes = "none"
    /\ hashL = 0
    /\ hashR = 0

\* lhs == rhs, and both values hashed.
AuditInfoCompare ==
    /\ eqRes = "none"
    /\ eqRes' = IF AuditInfoEq(lhs, rhs) THEN "true" ELSE "false"
    /\ hashL' = AuditInfoHash(lhs)
    /\ hashR' = AuditInfoHash(rhs)
    /\ UNCHANGED <<lhs, rhs, retrVars, fmtVars, extVars, teeVars>>

EqNext == AuditInfoCompare

\* Comparison and hashing of two basic session-info values.
InitEq == EqInit /\ RetrInit /\ FmtIdle /\ ExtIdle /\ TeeIdle

SpecEq == InitEq /\ [][EqNext]_vars

\* C8: a == b holds exactly when every field of a equals the same field of b,
\* and whenever a == b the hashes of a and b are equal.
C8_EqIsFieldwise ==
    eqRes /= "none" =>
        /\ (eqRes = "true") <=> (AuditInfoWords(lhs) = AuditInfoWords(rhs))
        /\ (eqRes = "true" => hashL = hashR)

C8_Witness ==
    /\ eqRes = "true"
    /\ lhs.ai_asid = MaxEqWord
    /\ hashL = hashR
    /\ hashL /= 0

(***************************************************************************)
(* tee: copy_buffer.  The reader and the writer are the caller's: a read or *)
(* a write may fail at any point of the stream.                            *)
(***************************************************************************)
MaxLen == 3
MaxPre == 1
MaxByte == 1

Bytes == 0..MaxByte
SeqsUpTo(n) == UNION {[1..k -> Bytes] : k \in 0..n}

\* reader.read_to_end(&mut buffer): either every byte the reader holds is appended
\* to the buffer, or the read fails after some of them were.
ReadToEnd(r, buf) ==
    {[ok |-> TRUE, reader |-> <<>>, buffer |-> buf \o r]}
    \cup {[ok |-> FALSE, reader |-> SubSeq(r, k + 1, Len(r)),
           buffer |-> buf \o SubSeq(r, 1, k)] : k \in 0..Len(r)}

\* writer.write_all(&buffer): either every byte of the buffer reaches the writer,
\* or the write fails after a part of them did.
WriteOnce(w, buf) ==
    {[ok |-> TRUE, writer |-> w \o SubSeq(buf, 1, k)] : k \in 0..Len(buf)}
    \cup {[ok |-> FALSE, writer |-> w]}
WriteAll(w, buf) ==
    {[ok |-> TRUE, writer |-> w \o buf]}
    \cup {[ok |-> FALSE, writer |-> w \o SubSeq(buf, 1, k)] : k \in 0..(Len(buf) - 1)}

TeeInit ==
    /\ tpc = "idle"
    /\ reader \in SeqsUpTo(MaxLen)
    /\ writer \in SeqsUpTo(MaxPre)
    /\ buffer = <<>>
    /\ tret = "none"
    /\ input0 = reader
    /\ writer0 = writer
    /\ ioErr = "none"

\* let mut buffer = Vec::new(); reader.read_to_end(&mut buffer)?;
CopyBufferRead ==
    /\ tpc = "idle"
    /\ \E o \in ReadToEnd(reader, <<>>) :
          /\ reader' = o.reader
          /\ buffer' = o.buffer
          /\ IF o.ok
             THEN tpc' = "write" /\ UNCHANGED <<tret, ioErr>>
             ELSE tpc' = "done" /\ tret' = "Err" /\ ioErr' = "read"
    /\ UNCHANGED <<writer, input0, writer0, retrVars, fmtVars, extVars, eqVars>>

\* writer.write_all(&buffer)?; Ok(())
CopyBufferWrite ==
    /\ tpc = "write"
    /\ \E o \in WriteAll(writer, buffer) :
          /\ writer' = o.writer
          /\ IF o.ok
             THEN tret' = "Ok" /\ UNCHANGED ioErr
             ELSE tret' = "Err" /\ ioErr' = "write"
    /\ tpc' = "done"
    /\ UNCHANGED <<reader, buffer, input0, writer0, retrVars, fmtVars, extVars, eqVars>>

TeeNext ==
    \/ CopyBufferRead
    \/ CopyBufferWrite

\* One call of copy_buffer.
InitTee == TeeInit /\ RetrInit /\ FmtIdle /\ ExtIdle /\ EqIdle

SpecTee == InitTee /\ [][TeeNext]_vars

\* C9: when copy_buffer returns Ok the writer holds what it held before followed
\* by exactly the reader's bytes, in order; a failed read or write is returned
\* as Err.
C9_CopyIsExact ==
    tpc = "done" =>
        /\ tret \in {"Ok", "Err"}
        /\ (tret = "Ok" =>
               /\ Len(writer) = Len(writer0) + Len(input0)
               /\ \A i \in 1..Len(writer0) : writer[i] = writer0[i]
               /\ \A i \in 1..Len(input0) : writer[Len(writer0) + i] = input0[i])
        /\ (ioErr /= "none" <=> tret = "Err")

C9_Witness ==
    /\ tpc = "done"
    /\ tret = "Ok"
    /\ Len(input0) = MaxLen
    /\ Len(writer0) = MaxPre
    /\ \E i \in 1..Len(input0) : input0[i] /= input0[1]
    /\ writer = writer0 \o input0

====
